---- MODULE Spec2Model ----
(***************************************************************************)
(* Model of the splice-sheet core of src/Index.js: the fiber position      *)
(* resolver (calculateFiberPosition) and the splice table builder          *)
(* (generateSpliceSheet, generateHeaders).  The source file holds two      *)
(* near-duplicate definitions of class SpliceSheetGenerator (lines 34-129  *)
(* and lines 382-477); the variable impl selects which one is running.     *)
(***************************************************************************)
EXTENDS Integers, Sequences, FiniteSets, TLC

(* ---------- bounds of the model ---------- *)
MaxIndex == 150
MaxFibersPerTube == 13
MaxPorts == 9
MaxCables == 2
MaxAddresses == 2
MaxConcurrentPorts == 5

(* ---------- JavaScript values that can sit in a cell ---------- *)
Num(n) == [t |-> "number", n |-> n, s |-> ""]
Str(s) == [t |-> "string", n |-> 0, s |-> s]
Null == [t |-> "null", n |-> 0, s |-> ""]
Undefined == [t |-> "undefined", n |-> 0, s |-> ""]

\* JavaScript truthiness of a cell value (if (x), x || y)
Truthy(v) ==
  CASE v.t = "number" -> v.n # 0
    [] v.t = "string" -> v.s # ""
    [] OTHER -> FALSE

\* a || b
OrElse(a, b) == IF Truthy(a) THEN a ELSE b

\* ${v} inside a template literal
TemplateString(v) ==
  CASE v.t = "number" -> ToString(v.n)
    [] v.t = "string" -> v.s
    [] v.t = "null" -> "null"
    [] OTHER -> "undefined"

\* obj.f : the property's value, undefined when the object has no such property
Field(obj, f) == IF f \in DOMAIN obj THEN obj[f] ELSE Undefined

\* arr[k] for a 0-based k: undefined outside the array
ArrayAt(arr, k) == IF k + 1 \in DOMAIN arr THEN Str(arr[k + 1]) ELSE Undefined

(* ---------- colour cycles ---------- *)
BUFFER_COLORS == <<"BL", "OR", "GR", "BR", "SL", "WH", "RD", "BK", "YL", "VT", "RS", "AQ">>
FIBER_COLORS == <<"bl", "or", "gr", "br", "sl", "wh", "rd", "bk", "yl", "vt", "rs", "aq">>

DefaultFibersPerTube == 12
DefaultPorts == 96
DefaultMainCableName == "FDH108_144F_1-96"

(* ---------- Fiber Position Resolver ---------- *)
bufferTubeNumber_NoOffset(fiberNumber, fibersPerTube) == (fiberNumber \div fibersPerTube) + 1

bufferTubeNumber(fiberNumber, fibersPerTube) == ((fiberNumber - 1) \div fibersPerTube) + 1

fiberInTube_Descending(fiberNumber, fibersPerTube) ==
  fibersPerTube - ((fiberNumber - 1) % fibersPerTube)

fiberInTube(fiberNumber, fibersPerTube) == ((fiberNumber - 1) % fibersPerTube) + 1

bufferColorOf_NoWrap(tube) == ArrayAt(BUFFER_COLORS, tube - 1)

bufferColorOf(tube) == ArrayAt(BUFFER_COLORS, (tube - 1) % Len(BUFFER_COLORS))

fiberColorOf(fiber) == ArrayAt(FIBER_COLORS, (fiber - 1) % Len(FIBER_COLORS))

calculateFiberPosition(fiberNumber, fibersPerTube) ==
  [bufferTube |-> bufferTubeNumber(fiberNumber, fibersPerTube),
   bufferColor |-> bufferColorOf(bufferTubeNumber(fiberNumber, fibersPerTube)),
   fiberNumber |-> fiberInTube(fiberNumber, fibersPerTube),
   fiberColor |-> fiberColorOf(fiberInTube(fiberNumber, fibersPerTube))]

(* ---------- Splice Table Builder: pure parts ---------- *)
\* destructuring of inputData with its defaults
PortsOf(cfg) == IF "ports" \in DOMAIN cfg THEN cfg.ports ELSE DefaultPorts
MainCableNameOf(cfg) ==
  IF "mainCableName" \in DOMAIN cfg THEN cfg.mainCableName ELSE DefaultMainCableName
CablesOf(cfg) == IF "cables" \in DOMAIN cfg THEN cfg.cables ELSE <<>>
AddressesOf(cfg) == IF "addresses" \in DOMAIN cfg THEN cfg.addresses ELSE <<>>

HeaderGroup_WithSheet ==
  <<Str("Port #"), Str("Cable"), Str("B#"), Str("(B)"), Str("F#"), Str("(F)"), Str("Sheet")>>

\* the six header cells pushed for one cable
HeaderGroup == <<Str("Port #"), Str("Cable"), Str("B#"), Str("(B)"), Str("F#"), Str("(F)")>>

RECURSIVE HeaderGroups(_)
HeaderGroups(cabs) ==
  IF cabs = <<>> THEN <<>> ELSE HeaderGroup \o HeaderGroups(Tail(cabs))

generateHeaders(im, cabs) ==
  <<Str("Port #"), Str(IF im = 1 THEN "Cable Name" ELSE "Main Cable")>>
    \o HeaderGroups(cabs)
    \o <<Str("MST"), Str("Address")>>

UnusedCableCells_NoName(im, p, cable) ==
  IF im = 1
    THEN <<Num(p), Null, Null, Null, Null>>
    ELSE <<Str(""), Str(""), Str(""), Str(""), Str("")>>

\* the cells pushed when port > cable.fiberCount
UnusedCableCells(im, p, cable) ==
  IF im = 1
    THEN <<Num(p), Str(cable.name), Null, Null, Null, Null>>
    ELSE <<Str(""), Str(cable.name), Str(""), Str(""), Str(""), Str("")>>

UsedCableCells_PositionOfCapacity(p, cable) ==
  LET fiberPos == calculateFiberPosition(cable.fiberCount, DefaultFibersPerTube)
  IN <<Num(p), Str(cable.name), Num(fiberPos.bufferTube), fiberPos.bufferColor,
       Num(fiberPos.fiberNumber), fiberPos.fiberColor>>

\* the cells pushed when port <= cable.fiberCount
UsedCableCells(p, cable) ==
  LET fiberPos == calculateFiberPosition(p, DefaultFibersPerTube)
  IN <<Num(p), Str(cable.name), Num(fiberPos.bufferTube), fiberPos.bufferColor,
       Num(fiberPos.fiberNumber), fiberPos.fiberColor>>

CableCells_StrictCapacity(im, p, cable) ==
  IF p < cable.fiberCount THEN UsedCableCells(p, cable) ELSE UnusedCableCells(im, p, cable)

\* body of the cables.forEach callback
CableCells(im, p, cable) ==
  IF p <= cable.fiberCount THEN UsedCableCells(p, cable) ELSE UnusedCableCells(im, p, cable)

RECURSIVE CableGroups(_, _, _)
CableGroups(im, p, cabs) ==
  IF cabs = <<>> THEN <<>>
  ELSE CableCells(im, p, Head(cabs)) \o CableGroups(im, p, Tail(cabs))

MstAddressCells_Swapped(im, addressInfo) ==
  IF im = 1
    THEN <<Field(addressInfo, "address"), Field(addressInfo, "mst")>>
    ELSE <<OrElse(Field(addressInfo, "address"), Str("")),
           OrElse(Field(addressInfo, "mst"), Str(""))>>

\* the mst and address cells of an address record
MstAddressCells(im, addressInfo) ==
  IF im = 1
    THEN <<Field(addressInfo, "mst"), Field(addressInfo, "address")>>
    ELSE <<OrElse(Field(addressInfo, "mst"), Str("")),
           OrElse(Field(addressInfo, "address"), Str(""))>>

SheetCells(addressInfo) ==
  IF Truthy(Field(addressInfo, "sheet"))
    THEN <<Str("SHEET # " \o TemplateString(Field(addressInfo, "sheet")))>>
    ELSE <<>>

TerminalCells(addressInfo) ==
  IF Truthy(Field(addressInfo, "terminal"))
    THEN <<Field(addressInfo, "terminal")>>
    ELSE <<>>

UnusedAddressCells_Omitted == <<>>

\* the cells pushed when the cursor is past the address list
UnusedAddressCells == <<Str(""), Str("Unused")>>

AddressCells_TerminalFirst(im, addrs, ai) ==
  IF ai < Len(addrs)
    THEN MstAddressCells(im, addrs[ai + 1]) \o TerminalCells(addrs[ai + 1])
           \o SheetCells(addrs[ai + 1])
    ELSE UnusedAddressCells

\* the cells pushed after the cable groups, for cursor position ai
AddressCells(im, addrs, ai) ==
  IF ai < Len(addrs)
    THEN MstAddressCells(im, addrs[ai + 1]) \o SheetCells(addrs[ai + 1])
           \o TerminalCells(addrs[ai + 1])
    ELSE UnusedAddressCells

NextAddressIndex_NoLastCheck(addrs, p, ai) ==
  IF ai < Len(addrs) /\ p % 4 = 0 THEN ai + 1 ELSE ai

NextAddressIndex_EveryThird(addrs, p, ai) ==
  IF ai < Len(addrs) /\ p % 3 = 0 /\ ai < Len(addrs) - 1 THEN ai + 1 ELSE ai

\* the cursor after the row of port p has been built
NextAddressIndex(addrs, p, ai) ==
  IF ai < Len(addrs) /\ p % 4 = 0 /\ ai < Len(addrs) - 1 THEN ai + 1 ELSE ai

LoopCondition_Exclusive(p, ports) == p < ports

\* the condition of the for loop over ports
LoopCondition(p, ports) == p <= ports

\* one data row
BuildRow(im, cfg, p, ai) ==
  <<Num(p), Str(MainCableNameOf(cfg))>>
    \o CableGroups(im, p, CablesOf(cfg))
    \o AddressCells(im, AddressesOf(cfg), ai)

\* the data rows of ports p.. when the cursor stands at ai
RECURSIVE DataRowsFrom(_, _, _, _)
DataRowsFrom(im, cfg, p, ai) ==
  IF LoopCondition(p, PortsOf(cfg))
    THEN <<BuildRow(im, cfg, p, ai)>>
           \o DataRowsFrom(im, cfg, p + 1, NextAddressIndex(AddressesOf(cfg), p, ai))
    ELSE <<>>

\* the table one uninterrupted call returns
generateSpliceSheet(im, cfg) ==
  <<generateHeaders(im, CablesOf(cfg))>> \o DataRowsFrom(im, cfg, 1, 0)

(* ---------- inputs ---------- *)
CablePool ==
  { [name |-> "144F(1)", fiberCount |-> 144],
    [name |-> "48F(3)", fiberCount |-> 4] }

AddressPool ==
  { [mst |-> Str("MST_F1245ECOATSAVE.210819"), address |-> Str("2101 MARENGO LK RD"),
     sheet |-> Num(14), terminal |-> Str("T1")],
    [mst |-> Str("MST_F1245ECOATSAVE.210819"), address |-> Str("1245 E COATS AVE"),
     sheet |-> Num(15)],
    [mst |-> Str("MST_F976ECOATSAVE.210820"), address |-> Str("")],
    [mst |-> Str("MST_F976ECOATSAVE.210820"), terminal |-> Str("T2")],
    [mst |-> Str("MST_F976ECOATSAVE.210820"), address |-> Str("VAC"),
     sheet |-> Num(16), terminal |-> Str("")] }

SeqsUpTo(S, n) == UNION { [1..k -> S] : k \in 0..n }

FullConfigs ==
  { [ports |-> p, mainCableName |-> "FDH108_144F_1-96", cables |-> cs, addresses |-> as] :
      p \in 0..MaxPorts, cs \in SeqsUpTo(CablePool, MaxCables),
      as \in SeqsUpTo(AddressPool, MaxAddresses) }

\* configs that leave ports and mainCableName to their defaults
PartialConfigs ==
  { [cables |-> <<[name |-> "144F(1)", fiberCount |-> 144], [name |-> "48F(3)", fiberCount |-> 48]>>,
     addresses |-> as] : as \in SeqsUpTo(AddressPool, 1) }

Configs == FullConfigs \cup PartialConfigs

\* the street addresses of the built-in sample list
sampleAddresses ==
  <<"2101 MARENGO LK RD", "1245 E COATS AVE", "821 E COATS AVE", "801 E COATS AVE",
    "976 E COATS AVE", "764 E COATS AVE", "268 HIGHLAND CIR", "608 7TH AVE",
    "702 7TH AVE", "302 TUCKER ST", "207 TUCKER ST", "205 TUCKER ST",
    "101 E COATS AVE", "108 E COATS AVE">>

\* sampleAddresses.map((addr, index) => ...), index being 0-based
generateSampleAddresses ==
  [k \in 1..Len(sampleAddresses) |->
     LET index == k - 1
     IN [mst |-> Str("MST_F" \o ToString(1000 + index) \o "ECOATSAVE.21082"
                       \o ToString(index % 10)),
         address |-> Str(sampleAddresses[k]),
         sheet |-> Num((index \div 3) + 10),
         terminal |-> IF index < 2 THEN Str("T" \o ToString(index + 1)) ELSE Undefined]]

\* the cables the custom-sheet handler uses when the request body names none
HandlerDefaultCables ==
  <<[name |-> "144F(1)", fiberCount |-> 144], [name |-> "144F(2)", fiberCount |-> 144]>>

\* the inputData the POST /generate-custom-splice-sheet handler builds from a request body:
\* defaults for missing fields, and the sample addresses in place of an empty address list
CustomInputData(body) ==
  [ports |-> IF "ports" \in DOMAIN body THEN body.ports ELSE DefaultPorts,
   mainCableName |->
     IF "mainCableName" \in DOMAIN body THEN body.mainCableName ELSE DefaultMainCableName,
   cables |-> IF "cables" \in DOMAIN body THEN body.cables ELSE HandlerDefaultCables,
   addresses |->
     IF Len(AddressesOf(body)) > 0 THEN AddressesOf(body) ELSE generateSampleAddresses]

\* the request bodies of two requests handled at the same time
ConcurrentRequestBodies ==
  { [ports |-> p, mainCableName |-> "FDH108_144F_1-96", cables |-> cs, addresses |-> as] :
      p \in 0..MaxConcurrentPorts,
      cs \in { <<>>, <<[name |-> "48F(3)", fiberCount |-> 4]>> },
      as \in { <<>>,
               <<[mst |-> Str("MST_F1245ECOATSAVE.210819"), address |-> Str("2101 MARENGO LK RD"),
                  sheet |-> Num(14), terminal |-> Str("T1")]>>,
               <<[mst |-> Str("MST_F1245ECOATSAVE.210819"), address |-> Str("1245 E COATS AVE"),
                  sheet |-> Num(15)],
                 [mst |-> Str("MST_F976ECOATSAVE.210820"), address |-> Str("")]>> } }

(* ---------- state ---------- *)
VARIABLES
  impl,             \* which of the two class definitions runs (1: line 34, 2: line 382)
  fiberColorIndex,  \* this.fiberColorIndex
  bufferTubeIndex,  \* this.bufferTubeIndex
  inputData,        \* per invocation: the argument of generateSpliceSheet
  pc,               \* per invocation: "start", "loop", "done"
  port,             \* per invocation: the loop variable
  addressIndex,     \* per invocation: the address cursor
  spliceData,       \* per invocation: the table built so far
  fibersPerTubeArg, \* resolver harness: the fibersPerTube argument in use
  resolved          \* resolver harness: the calculateFiberPosition calls made so far

vars == <<impl, fiberColorIndex, bufferTubeIndex, inputData, pc, port, addressIndex,
          spliceData, fibersPerTubeArg, resolved>>

builderVars == <<inputData, pc, port, addressIndex, spliceData>>
resolverVars == <<fibersPerTubeArg, resolved>>
instanceVars == <<impl, fiberColorIndex, bufferTubeIndex>>

Calls == DOMAIN pc

(* ---------- construction ---------- *)
Constructor ==
  /\ impl \in {1, 2}
  /\ fiberColorIndex = 0
  /\ bufferTubeIndex = 0

\* one generateSpliceSheet invocation about to run
Init ==
  /\ Constructor
  /\ \E cfg \in Configs : inputData = <<cfg>>
  /\ pc = <<"start">>
  /\ port = <<0>>
  /\ addressIndex = <<0>>
  /\ spliceData = << <<>> >>
  /\ fibersPerTubeArg = DefaultFibersPerTube
  /\ resolved = <<>>

(* ---------- generateSpliceSheet, one invocation i ---------- *)
\* destructuring, the locals, and the header row
Begin(i) ==
  /\ pc[i] = "start"
  /\ spliceData' = [spliceData EXCEPT ![i] = <<generateHeaders(impl, CablesOf(inputData[i]))>>]
  /\ addressIndex' = [addressIndex EXCEPT ![i] = 0]
  /\ port' = [port EXCEPT ![i] = 1]
  /\ pc' = [pc EXCEPT ![i] = "loop"]
  /\ UNCHANGED <<inputData, instanceVars, resolverVars>>

\* the cursor kept in one place for all invocations instead of one per invocation
PortStep_SharedCursor(i) ==
  /\ pc[i] = "loop"
  /\ LoopCondition(port[i], PortsOf(inputData[i]))
  /\ spliceData' = [spliceData EXCEPT ![i] =
       Append(@, BuildRow(impl, inputData[i], port[i], addressIndex[1]))]
  /\ addressIndex' = [addressIndex EXCEPT ![1] =
       NextAddressIndex(AddressesOf(inputData[i]), port[i], @)]
  /\ port' = [port EXCEPT ![i] = @ + 1]
  /\ UNCHANGED <<pc, inputData, instanceVars, resolverVars>>

\* the address list consumed with addresses.shift() instead of walked with a cursor
PortStep_ShiftsAddresses(i) ==
  /\ pc[i] = "loop"
  /\ LoopCondition(port[i], PortsOf(inputData[i]))
  /\ spliceData' = [spliceData EXCEPT ![i] =
       Append(@, BuildRow(impl, inputData[i], port[i], 0))]
  /\ inputData' = [inputData EXCEPT ![i] =
       IF port[i] % 4 = 0 /\ Len(AddressesOf(@)) > 1
         THEN [@ EXCEPT !.addresses = Tail(AddressesOf(inputData[i]))]
         ELSE @]
  /\ port' = [port EXCEPT ![i] = @ + 1]
  /\ UNCHANGED <<pc, addressIndex, instanceVars, resolverVars>>

\* one iteration of the for loop over ports
PortStep(i) ==
  /\ pc[i] = "loop"
  /\ LoopCondition(port[i], PortsOf(inputData[i]))
  /\ spliceData' = [spliceData EXCEPT ![i] =
       Append(@, BuildRow(impl, inputData[i], port[i], addressIndex[i]))]
  /\ addressIndex' = [addressIndex EXCEPT ![i] =
       NextAddressIndex(AddressesOf(inputData[i]), port[i], @)]
  /\ port' = [port EXCEPT ![i] = @ + 1]
  /\ UNCHANGED <<pc, inputData, instanceVars, resolverVars>>

\* loop exit and return spliceData
Return(i) ==
  /\ pc[i] = "loop"
  /\ ~LoopCondition(port[i], PortsOf(inputData[i]))
  /\ pc' = [pc EXCEPT ![i] = "done"]
  /\ UNCHANGED <<port, addressIndex, spliceData, inputData, instanceVars, resolverVars>>

Next ==
  \/ \E i \in Calls : Begin(i)
  \/ \E i \in Calls : PortStep(i)
  \/ \E i \in Calls : Return(i)

Spec == Init /\ [][Next]_vars

(* ---------- two invocations, their port steps interleaved ---------- *)
\* two custom-sheet requests, each about to call generateSpliceSheet on its inputData
InitConcurrent ==
  /\ Constructor
  /\ \E body1, body2 \in ConcurrentRequestBodies :
       inputData = <<CustomInputData(body1), CustomInputData(body2)>>
  /\ pc = <<"start", "start">>
  /\ port = <<0, 0>>
  /\ addressIndex = <<0, 0>>
  /\ spliceData = << <<>>, <<>> >>
  /\ fibersPerTubeArg = DefaultFibersPerTube
  /\ resolved = <<>>

SpecConcurrent == InitConcurrent /\ [][Next]_vars

(* ---------- the resolver on its own ---------- *)
InitResolve ==
  /\ Constructor
  /\ inputData = <<>>
  /\ pc = <<>>
  /\ port = <<>>
  /\ addressIndex = <<>>
  /\ spliceData = <<>>
  /\ fibersPerTubeArg \in 1..MaxFibersPerTube
  /\ resolved = <<>>

\* a call calculateFiberPosition(idx, fibersPerTubeArg); two calls are made and kept
Resolve ==
  /\ Len(resolved) < 2
  /\ \E idx \in 1..MaxIndex :
       resolved' = Append(resolved,
                          [index |-> idx,
                           fiberPos |-> calculateFiberPosition(idx, fibersPerTubeArg)])
  /\ UNCHANGED <<fibersPerTubeArg, builderVars, instanceVars>>

NextResolve == Resolve

SpecResolve == InitResolve /\ [][NextResolve]_vars
(* ---------- properties of the resolver (checked under SpecResolve) ---------- *)
\* the colour cycle in the order Blue, Orange, Green, Brown, Slate, White, Red, Black,
\* Yellow, Violet, Rose, Aqua
CycleUpper == <<"BL", "OR", "GR", "BR", "SL", "WH", "RD", "BK", "YL", "VT", "RS", "AQ">>
CycleLower == <<"bl", "or", "gr", "br", "sl", "wh", "rd", "bk", "yl", "vt", "rs", "aq">>

PositionIs(pos, tube, bcolor, fiber, fcolor) ==
  /\ pos.bufferTube = tube
  /\ pos.bufferColor = Str(bcolor)
  /\ pos.fiberNumber = fiber
  /\ pos.fiberColor = Str(fcolor)

\* C1: for every index >= 1 and fibersPerTube >= 1, calculateFiberPosition returns
\* bufferTube = floor((index-1)/fibersPerTube)+1 and fiberNumber = ((index-1) mod
\* fibersPerTube)+1: fiberNumber is in 1..fibersPerTube, bufferTube >= 1, bufferTube is the
\* one tube t with (t-1)*fibersPerTube < index <= t*fibersPerTube, and
\* (bufferTube-1)*fibersPerTube + fiberNumber = index.
C1_TubeAndFiberNumber ==
  \A k \in DOMAIN resolved :
    LET idx == resolved[k].index
        pos == resolved[k].fiberPos
    IN /\ pos.fiberNumber \in 1..fibersPerTubeArg
       /\ pos.bufferTube >= 1
       /\ (pos.bufferTube - 1) * fibersPerTubeArg < idx
       /\ idx <= pos.bufferTube * fibersPerTubeArg
       /\ (pos.bufferTube - 1) * fibersPerTubeArg + pos.fiberNumber = idx

C1_Witness ==
  /\ fibersPerTubeArg = 5
  /\ Len(resolved) = 2
  /\ resolved[1].index = 10 /\ resolved[1].fiberPos.bufferTube = 2
  /\ resolved[1].fiberPos.fiberNumber = 5
  /\ resolved[2].index = 11 /\ resolved[2].fiberPos.bufferTube = 3
  /\ resolved[2].fiberPos.fiberNumber = 1

\* C2: for every index >= 1 and fibersPerTube >= 1, bufferColor is entry (bufferTube-1) mod 12
\* and fiberColor is entry (fiberNumber-1) mod 12 of the cycle BL,OR,GR,BR,SL,WH,RD,BK,YL,VT,
\* RS,AQ (lowercase for fibers); the result is always one of the 12 codes, never undefined,
\* also for tube > 12 or fibersPerTube > 12; resolve(1,12) = (1,BL,1,bl),
\* resolve(13,12) = (2,OR,1,bl), resolve(144,12) = (12,AQ,12,aq).
C2_Colours ==
  \A k \in DOMAIN resolved :
    LET idx == resolved[k].index
        pos == resolved[k].fiberPos
    IN /\ pos.bufferColor = Str(CycleUpper[((pos.bufferTube - 1) % 12) + 1])
       /\ pos.fiberColor = Str(CycleLower[((pos.fiberNumber - 1) % 12) + 1])
       /\ pos.bufferColor \in { Str(CycleUpper[c]) : c \in 1..12 }
       /\ pos.fiberColor \in { Str(CycleLower[c]) : c \in 1..12 }
       /\ (fibersPerTubeArg = 12 /\ idx = 1 => PositionIs(pos, 1, "BL", 1, "bl"))
       /\ (fibersPerTubeArg = 12 /\ idx = 13 => PositionIs(pos, 2, "OR", 1, "bl"))
       /\ (fibersPerTubeArg = 12 /\ idx = 144 => PositionIs(pos, 12, "AQ", 12, "aq"))

\* a call at the end of tube 12 followed by one in tube 13, whose colour wraps to the first
C2_Witness ==
  /\ fibersPerTubeArg = 12
  /\ Len(resolved) = 2
  /\ resolved[1].index = 144 /\ resolved[1].fiberPos.bufferColor = Str("AQ")
  /\ resolved[2].index = 145 /\ resolved[2].fiberPos.bufferTube = 13
  /\ resolved[2].fiberPos.bufferColor = Str("BL")

\* C3 as stated: for a fixed fibersPerTube and all 1 <= i < j, bufferTube(i) <= bufferTube(j)
\* and fiberNumber(i) <= fiberNumber(j).
C3_BothMonotone ==
  \A a, b \in DOMAIN resolved :
    resolved[a].index < resolved[b].index =>
      /\ resolved[a].fiberPos.bufferTube <= resolved[b].fiberPos.bufferTube
      /\ resolved[a].fiberPos.fiberNumber <= resolved[b].fiberPos.fiberNumber

\* C3 amended: for a fixed fibersPerTube and all 1 <= i < j, bufferTube(i) <= bufferTube(j),
\* and fiberNumber(i) <= fiberNumber(j) whenever i and j lie in the same buffer tube (the
\* in-tube fiber number wraps to 1 each time the tube advances).
C3_TubeMonotoneFiberWithinTube ==
  \A a, b \in DOMAIN resolved :
    resolved[a].index < resolved[b].index =>
      /\ resolved[a].fiberPos.bufferTube <= resolved[b].fiberPos.bufferTube
      /\ (resolved[a].fiberPos.bufferTube = resolved[b].fiberPos.bufferTube
            => resolved[a].fiberPos.fiberNumber <= resolved[b].fiberPos.fiberNumber)

\* two calls in one tube followed in index order, the second further along the tube
C3_Witness ==
  /\ fibersPerTubeArg = 12
  /\ Len(resolved) = 2
  /\ resolved[1].index = 14 /\ resolved[2].index = 24
  /\ resolved[1].fiberPos.bufferTube = 2 /\ resolved[2].fiberPos.bufferTube = 2
  /\ resolved[1].fiberPos.fiberNumber = 2 /\ resolved[2].fiberPos.fiberNumber = 12

(* ---------- properties of the builder (checked under Spec) ---------- *)
\* the data rows built so far by invocation i: row p is the row of port p
DataRows(i) == 1..(Len(spliceData[i]) - 1)
DataRow(i, p) == spliceData[i][p + 1]
NumCables(i) == Len(CablesOf(inputData[i]))
NumAddresses(i) == Len(AddressesOf(inputData[i]))
\* cell k (0-based, as in the source's arrays) of a row
Cell(row, k) == row[k + 1]
Blank(c) == c \in {Null, Undefined, Str("")}
Min(a, b) == IF a <= b THEN a ELSE b
Max(a, b) == IF a >= b THEN a ELSE b

\* C4: for every config with ports >= 0 the returned table has exactly ports+1 rows: row 0
\* is the header and row p, for p in 1..ports, is the data row of port p (first cell p, second
\* cell mainCableName), in ascending order with none skipped or repeated; ports = 0 yields
\* the header alone whatever cables and addresses contain.
C4_OneRowPerPort ==
  \A i \in Calls :
    pc[i] = "done" =>
      /\ Len(spliceData[i]) = PortsOf(inputData[i]) + 1
      /\ Cell(spliceData[i][1], 0) = Str("Port #")
      /\ \A p \in 1..PortsOf(inputData[i]) :
           /\ Cell(DataRow(i, p), 0) = Num(p)
           /\ Cell(DataRow(i, p), 1) = Str(MainCableNameOf(inputData[i]))

C4_Witness ==
  \E i \in Calls :
    /\ pc[i] = "done"
    /\ PortsOf(inputData[i]) = 3
    /\ NumCables(i) = 2 /\ NumAddresses(i) = 2
    /\ Len(spliceData[i]) = 4
    /\ Cell(DataRow(i, 3), 0) = Num(3)

\* C5: the header row has length exactly 2 + 6*cables.length + 2: two leading fixed columns,
\* one six-column group per cable in cable order, then 'MST' and 'Address'; the conditional
\* sheet/terminal cells never appear in the header.
C5_HeaderLength ==
  \A i \in Calls :
    pc[i] # "start" =>
      LET h == spliceData[i][1]
          n == NumCables(i)
      IN /\ Len(h) = 2 + 6 * n + 2
         /\ Cell(h, 0) = Str("Port #")
         /\ Cell(h, 1) \in {Str("Cable Name"), Str("Main Cable")}
         /\ \A j \in 0..(n - 1) :
              SubSeq(h, 3 + 6 * j, 8 + 6 * j)
                = <<Str("Port #"), Str("Cable"), Str("B#"), Str("(B)"), Str("F#"), Str("(F)")>>
         /\ Cell(h, 2 + 6 * n) = Str("MST")
         /\ Cell(h, 3 + 6 * n) = Str("Address")

\* a header built for two cables while the first address record carries sheet and terminal
C5_Witness ==
  \E i \in Calls :
    /\ pc[i] = "done"
    /\ NumCables(i) = 2
    /\ NumAddresses(i) >= 1
    /\ "sheet" \in DOMAIN AddressesOf(inputData[i])[1]
    /\ "terminal" \in DOMAIN AddressesOf(inputData[i])[1]
    /\ Len(spliceData[i]) >= 2
    /\ Len(spliceData[i][1]) = 16
    /\ Len(DataRow(i, 1)) = 18

\* C6: for every port p and every cable with p <= cable.fiberCount (p = fiberCount included),
\* the cable's six cells in row p are p, cable.name, bufferTube, bufferColor, fiberNumber,
\* fiberColor of the position of p with fibersPerTube fixed at 12.
C6_PopulatedGroup ==
  \A i \in Calls : \A p \in DataRows(i) : \A j \in 1..NumCables(i) :
    LET cable == CablesOf(inputData[i])[j]
        tube == ((p - 1) \div 12) + 1
        fiber == ((p - 1) % 12) + 1
    IN p <= cable.fiberCount =>
         SubSeq(DataRow(i, p), 3 + 6 * (j - 1), 8 + 6 * (j - 1))
           = <<Num(p), Str(cable.name), Num(tube), Str(CycleUpper[((tube - 1) % 12) + 1]),
               Num(fiber), Str(CycleLower[((fiber - 1) % 12) + 1])>>

\* the row of port 4 for a cable of capacity exactly 4
C6_Witness ==
  \E i \in Calls : \E j \in 1..NumCables(i) :
    /\ CablesOf(inputData[i])[j].fiberCount = 4
    /\ 4 \in DataRows(i)
    /\ SubSeq(DataRow(i, 4), 3 + 6 * (j - 1), 8 + 6 * (j - 1))
         = <<Num(4), Str(CablesOf(inputData[i])[j].name), Num(1), Str("BL"), Num(4), Str("br")>>

\* C7: for every port p and every cable with p > cable.fiberCount, the cable's group in row p
\* is six cells in which the per-cable port-number cell and the four position cells are all
\* blank; only the cable-name cell may carry a value, so the group is distinguishable from a
\* populated one.
C7_UnusedGroupBlank ==
  \A i \in Calls : \A p \in DataRows(i) : \A j \in 1..NumCables(i) :
    LET cable == CablesOf(inputData[i])[j]
        g == SubSeq(DataRow(i, p), 3 + 6 * (j - 1), 8 + 6 * (j - 1))
    IN p > cable.fiberCount =>
         /\ Len(g) = 6
         /\ Blank(g[1])
         /\ g[2] \in {Str(cable.name), Null, Undefined, Str("")}
         /\ \A k \in 3..6 : Blank(g[k])

\* C8: every data row holds exactly cables.length six-cell groups, within capacity or not:
\* cells 2+6j .. 7+6j of row p belong to cable j (cell 3+6j is its name), so the address
\* cells start at index 2 + 6*cables.length, under the header's 'MST' column.
C8_GroupsAligned ==
  \A i \in Calls : \A p \in DataRows(i) :
    LET row == DataRow(i, p)
        n == NumCables(i)
        mstCells == { Field(AddressesOf(inputData[i])[a], "mst") : a \in 1..NumAddresses(i) }
    IN /\ Len(row) - (2 + 6 * n) \in 2..4
       /\ \A j \in 0..(n - 1) :
            /\ Cell(row, 3 + 6 * j) = Str(CablesOf(inputData[i])[j + 1].name)
            /\ Cell(row, 2 + 6 * j) \in {Num(p), Str("")}
            /\ \/ \A k \in 4..7 : Blank(Cell(row, k + 6 * j))
               \/ /\ Cell(row, 4 + 6 * j).t = "number"
                  /\ Cell(row, 5 + 6 * j) \in { Str(CycleUpper[c]) : c \in 1..12 }
                  /\ Cell(row, 6 + 6 * j).t = "number"
                  /\ Cell(row, 7 + 6 * j) \in { Str(CycleLower[c]) : c \in 1..12 }
       /\ Cell(spliceData[i][1], 2 + 6 * n) = Str("MST")
       /\ Cell(row, 2 + 6 * n) \in (IF NumAddresses(i) = 0 THEN {Str("")} ELSE mstCells)

\* a row with one cable within capacity and one beyond it, followed by a real address
C8_Witness ==
  \E i \in Calls : \E p \in DataRows(i) :
    /\ NumCables(i) = 2
    /\ NumAddresses(i) >= 1
    /\ p > CablesOf(inputData[i])[1].fiberCount
    /\ p <= CablesOf(inputData[i])[2].fiberCount
    /\ Cell(DataRow(i, p), 14) = Str("MST_F1245ECOATSAVE.210819")

\* the address cells of a row: everything after the cable groups
AddressPart(i, p) == SubSeq(DataRow(i, p), 3 + 6 * NumCables(i), Len(DataRow(i, p)))

\* C9: with a non-empty address list of length n, the row of port p shows address record
\* number min(floor((p-1)/4), n-1): with ports = 8 and two records, ports 1-4 show record 0
\* and ports 5-8 record 1; with ports = 4 and one record all four data rows have identical
\* address cells and the table has 5 rows.
C9_RecordOfPort ==
  \A i \in Calls :
    LET n == NumAddresses(i)
        addrs == AddressesOf(inputData[i])
    IN n >= 1 =>
         /\ \A p \in DataRows(i) :
              AddressPart(i, p) = AddressCells(impl, addrs, Min((p - 1) \div 4, n - 1))
         /\ (pc[i] = "done" /\ PortsOf(inputData[i]) = 4 /\ n = 1 =>
               /\ Len(spliceData[i]) = 5
               /\ \A p, q \in 1..4 : AddressPart(i, p) = AddressPart(i, q))

\* ports = 8 with two different records: rows 4 and 5 show different records
C9_Witness ==
  \E i \in Calls :
    /\ pc[i] = "done"
    /\ PortsOf(inputData[i]) = 8
    /\ NumAddresses(i) = 2
    /\ NumCables(i) = 1
    /\ AddressPart(i, 4) = <<Str("MST_F1245ECOATSAVE.210819"), Str("2101 MARENGO LK RD"),
                             Str("SHEET # 14"), Str("T1")>>
    /\ AddressPart(i, 5) = <<Str("MST_F1245ECOATSAVE.210819"), Str("1245 E COATS AVE"),
                             Str("SHEET # 15")>>
    /\ AddressPart(i, 8) = AddressPart(i, 5)

\* C10: the address cursor is 0 before port 1, is incremented by exactly 1 after port p iff
\* p mod 4 = 0 and cursor < addresses.length - 1, and is otherwise unchanged; so always
\* 0 <= cursor <= max(addresses.length - 1, 0), it never decreases or skips a record, and once
\* the port exceeds 4*addresses.length every remaining port shows the last record.
C10_CursorBounds ==
  \A i \in Calls :
    /\ (pc[i] = "loop" /\ port[i] = 1 => addressIndex[i] = 0)
    /\ 0 <= addressIndex[i]
    /\ addressIndex[i] <= Max(NumAddresses(i) - 1, 0)
    /\ (pc[i] = "loop" /\ NumAddresses(i) >= 1 /\ port[i] > 4 * NumAddresses(i)
          => addressIndex[i] = NumAddresses(i) - 1)

C10_CursorStep ==
  \A i \in Calls :
    (pc[i] = "loop" /\ port'[i] = port[i] + 1) =>
      addressIndex'[i] =
        IF port[i] % 4 = 0 /\ addressIndex[i] < NumAddresses(i) - 1
          THEN addressIndex[i] + 1
          ELSE addressIndex[i]

C10_Cursor == []C10_CursorBounds /\ [][C10_CursorStep]_vars

\* two records, the cursor on the last one after port 8, the row of port 9 still to build
C10_Witness ==
  \E i \in Calls :
    /\ pc[i] = "loop"
    /\ NumAddresses(i) = 2
    /\ port[i] = 9
    /\ PortsOf(inputData[i]) >= 9
    /\ addressIndex[i] = 1

\* the address record shown by the row of port p, for a non-empty address list
RecordOfRow(i, p) ==
  AddressesOf(inputData[i])[Min((p - 1) \div 4, NumAddresses(i) - 1) + 1]
Has(rec, f) == f \in DOMAIN rec
HasNonEmpty(rec, f) == f \in DOMAIN rec /\ rec[f] # Str("")

\* C13 as stated: whenever the cursor is within the address list, the two address cells of
\* the row are the current record's mst followed by its address, and when that address is
\* absent or empty the address cell is the literal 'Unused'.
C13_UnusedForEmptyAddress ==
  \A i \in Calls : \A p \in DataRows(i) :
    NumAddresses(i) >= 1 =>
      LET rec == RecordOfRow(i, p)
      IN /\ AddressPart(i, p)[1] = rec.mst
         /\ AddressPart(i, p)[2] =
              (IF HasNonEmpty(rec, "address") THEN rec.address ELSE Str("Unused"))

\* C13 amended: whenever the cursor is within the address list, the two address cells of
\* the row are the current record's mst followed by its address, and when that address is
\* absent or empty the address cell is blank (the empty string in the class at line 382,
\* the record's own empty or undefined value in the class at line 34), never 'Unused'.
C13_BlankForEmptyAddress ==
  \A i \in Calls : \A p \in DataRows(i) :
    NumAddresses(i) >= 1 =>
      LET rec == RecordOfRow(i, p)
      IN /\ AddressPart(i, p)[1] = rec.mst
         /\ HasNonEmpty(rec, "address") => AddressPart(i, p)[2] = rec.address
         /\ ~HasNonEmpty(rec, "address") =>
              /\ Blank(AddressPart(i, p)[2])
              /\ impl = 2 => AddressPart(i, p)[2] = Str("")
              /\ impl = 1 => AddressPart(i, p)[2] = Field(rec, "address")

\* rows of one table showing a record with an empty address and one with no address
C13_Witness ==
  \E i \in Calls : \E p, q \in DataRows(i) :
    /\ NumAddresses(i) = 2
    /\ Field(RecordOfRow(i, p), "address") = Str("")
    /\ ~Has(RecordOfRow(i, q), "address")
    /\ Blank(AddressPart(i, p)[2])
    /\ Blank(AddressPart(i, q)[2])

\* C14: address cells are never omitted: every data row has at least two cells after the
\* cable groups; when the cursor is exhausted these are exactly '' and 'Unused' with no sheet
\* or terminal cell; the exhausted branch is taken for a row iff the address list is empty,
\* and then every data row ends this way.
C14_AddressCellsAlwaysPresent ==
  \A i \in Calls :
    /\ (pc[i] = "loop" => (addressIndex[i] >= NumAddresses(i) <=> NumAddresses(i) = 0))
    /\ \A p \in DataRows(i) :
         /\ Len(DataRow(i, p)) >= 2 + 6 * NumCables(i) + 2
         /\ NumAddresses(i) = 0 => AddressPart(i, p) = <<Str(""), Str("Unused")>>
         /\ NumAddresses(i) >= 1 => AddressPart(i, p)[1] = RecordOfRow(i, p).mst

\* a finished table of five ports with a cable and no address at all
C14_Witness ==
  \E i \in Calls :
    /\ pc[i] = "done"
    /\ NumAddresses(i) = 0
    /\ NumCables(i) = 1
    /\ PortsOf(inputData[i]) = 5
    /\ \A p \in 1..5 : AddressPart(i, p) = <<Str(""), Str("Unused")>>

\* the cells that follow the two address cells of a row
ExtraCells(i, p) == SubSeq(AddressPart(i, p), 3, Len(AddressPart(i, p)))
SheetLabel(rec) == Str("SHEET # " \o ToString(rec.sheet.n))

\* C15 as stated: for every data row whose cursor is within the address list, a cell
\* 'SHEET # <sheet>' follows the address cell exactly when the record has a sheet, then a
\* cell holding the terminal exactly when the record has a terminal; the row length is
\* 2 + 6*cables.length + 2 + (1 if sheet present) + (1 if terminal present).
C15_ExtraCellsWhenPresent ==
  \A i \in Calls : \A p \in DataRows(i) :
    NumAddresses(i) >= 1 =>
      LET rec == RecordOfRow(i, p)
      IN /\ ExtraCells(i, p) =
              (IF Has(rec, "sheet") THEN <<SheetLabel(rec)>> ELSE <<>>)
                \o (IF Has(rec, "terminal") THEN <<rec.terminal>> ELSE <<>>)
         /\ Len(DataRow(i, p)) = 2 + 6 * NumCables(i) + 2
              + (IF Has(rec, "sheet") THEN 1 ELSE 0)
              + (IF Has(rec, "terminal") THEN 1 ELSE 0)

\* C15 amended: for every data row whose cursor is within the address list, a cell
\* 'SHEET # <sheet>' follows the address cell exactly when the record has a sheet, then a
\* cell holding the terminal exactly when the record has a non-empty terminal; the row length
\* is 2 + 6*cables.length + 2 + (1 if sheet present) + (1 if terminal present and non-empty),
\* always between 2 + 6*cables.length + 2 and 2 + 6*cables.length + 4.
C15_ExtraCellsWhenNonEmpty ==
  \A i \in Calls : \A p \in DataRows(i) :
    NumAddresses(i) >= 1 =>
      LET rec == RecordOfRow(i, p)
      IN /\ ExtraCells(i, p) =
              (IF Has(rec, "sheet") THEN <<SheetLabel(rec)>> ELSE <<>>)
                \o (IF HasNonEmpty(rec, "terminal") THEN <<rec.terminal>> ELSE <<>>)
         /\ Len(DataRow(i, p)) = 2 + 6 * NumCables(i) + 2
              + (IF Has(rec, "sheet") THEN 1 ELSE 0)
              + (IF HasNonEmpty(rec, "terminal") THEN 1 ELSE 0)
         /\ Len(DataRow(i, p)) \in (2 + 6 * NumCables(i) + 2)..(2 + 6 * NumCables(i) + 4)

\* one table with a row carrying sheet and terminal cells and a row carrying neither
C15_Witness ==
  \E i \in Calls : \E p, q \in DataRows(i) :
    /\ NumCables(i) = 1
    /\ ExtraCells(i, p) = <<Str("SHEET # 14"), Str("T1")>>
    /\ Len(DataRow(i, p)) = 12
    /\ ExtraCells(i, q) = <<>>
    /\ Len(DataRow(i, q)) = 10

\* the six cells of cable j (1-based) in the row of port p
Group(i, p, j) == SubSeq(DataRow(i, p), 3 + 6 * (j - 1), 8 + 6 * (j - 1))

\* C16: within any data row, all cables within capacity for that port carry the same
\* per-cable port number and the same fiber position (bufferTube, bufferColor, fiberNumber,
\* fiberColor); two populated groups of one row differ only in the cable-name cell.
C16_SamePositionAcrossCables ==
  \A i \in Calls : \A p \in DataRows(i) : \A j, k \in 1..NumCables(i) :
    (p <= CablesOf(inputData[i])[j].fiberCount /\ p <= CablesOf(inputData[i])[k].fiberCount)
      => \A c \in {1, 3, 4, 5, 6} : Group(i, p, j)[c] = Group(i, p, k)[c]

\* a row in which two cables of different name and capacity are both populated
C16_Witness ==
  \E i \in Calls : \E p \in DataRows(i) :
    /\ NumCables(i) = 2
    /\ CablesOf(inputData[i])[1].fiberCount = 144
    /\ CablesOf(inputData[i])[2].fiberCount = 4
    /\ p = 4
    /\ Group(i, p, 1)[2] # Group(i, p, 2)[2]
    /\ Group(i, p, 1)[3] = Num(1) /\ Group(i, p, 2)[3] = Num(1)
    /\ Group(i, p, 1)[6] = Str("br") /\ Group(i, p, 2)[6] = Str("br")

(* ---------- properties of repeated and concurrent calls (SpecConcurrent) ---------- *)
\* C11: calling generateSpliceSheet twice with the identical config yields identical tables
\* (same rows, same cells, same order), and a call leaves the input config unchanged: ports,
\* mainCableName, cables, addresses and their records are the same after as before.
C11_SameTables ==
  (inputData[1] = inputData[2] /\ pc[1] = "done" /\ pc[2] = "done")
    => spliceData[1] = spliceData[2]

C11_ConfigUntouched == inputData' = inputData

C11_Idempotent == []C11_SameTables /\ [][C11_ConfigUntouched]_vars

\* both calls finished on one config of five ports, a cable and two address records
C11_Witness ==
  /\ pc = <<"done", "done">>
  /\ inputData[1] = inputData[2]
  /\ PortsOf(inputData[1]) = 5
  /\ NumCables(1) = 1 /\ NumAddresses(1) = 2
  /\ Len(spliceData[1]) = 6 /\ Len(spliceData[2]) = 6
  /\ AddressPart(1, 5) # AddressPart(1, 4)
  /\ AddressPart(2, 5) = AddressPart(1, 5)

\* C12: invocations whose per-port steps are interleaved arbitrarily each produce the same
\* table as when run alone: the address cursor and the rows under construction are local to
\* one invocation, and no state written by one invocation is read by another.
C12_TableAsWhenAlone ==
  \A i \in Calls :
    /\ pc[i] = "done" => spliceData[i] = generateSpliceSheet(impl, inputData[i])
    /\ pc[i] = "loop" =>
         /\ Len(spliceData[i]) = port[i]
         /\ spliceData[i]
              = SubSeq(generateSpliceSheet(impl, inputData[i]), 1, port[i])

\* a step of one invocation leaves the locals of every other invocation and the instance alone
C12_StepIsLocal ==
  /\ \A i, k \in Calls :
       (k # i /\ (pc'[i] # pc[i] \/ port'[i] # port[i])) =>
         /\ addressIndex'[k] = addressIndex[k]
         /\ spliceData'[k] = spliceData[k]
         /\ port'[k] = port[k]
         /\ pc'[k] = pc[k]
  /\ fiberColorIndex' = fiberColorIndex
  /\ bufferTubeIndex' = bufferTubeIndex

C12_Interleaving == []C12_TableAsWhenAlone /\ [][C12_StepIsLocal]_vars

\* both invocations in mid-loop at different ports with different cursors
C12_Witness ==
  /\ pc = <<"loop", "loop">>
  /\ NumAddresses(1) = 2 /\ NumAddresses(2) = 2
  /\ port[1] = 5 /\ addressIndex[1] = 1
  /\ port[2] = 3 /\ addressIndex[2] = 0
  /\ PortsOf(inputData[1]) = 5 /\ PortsOf(inputData[2]) = 5
====
